---- MODULE Spec2Model ----
(***************************************************************************)
(* Batch Excel -> Origin plotter (Batch_Excel_Origin_Plotter.py).          *)
(*                                                                         *)
(* The state is the Tk controller (progress bar, the modal dialog of the   *)
(* interactive thread), the worker threads spawned by _start_batch with    *)
(* the locals of their process_file call, the files written to disk, and   *)
(* the record of what the global exception hook did.  Strings the code     *)
(* takes apart (the ';'-joined selection, paths) are sequences of          *)
(* one-character strings; strings that the code only builds are TLA+       *)
(* strings.                                                                *)
(***************************************************************************)
EXTENDS Integers, Sequences, FiniteSets, TLC

\* ------------------------------------------------------------------ bounds
MaxLen == 3         \* longest text typed into the file entry
MaxCols == 10       \* widest 'Record Sheet'
MaxBatches == 2     \* batches started in one run of the program

\* --------------------------------------------------------------- constants
ProgressMax == 100  \* min(100, ...) in update_progress
ProgressFull == 100 \* 100 // cycles in process_file
GroupWidth == 3     \* len(raw.columns) // 3, i*3+1, i*3+2
PairWidth == 2      \* i*2, i*2 + 1

\* ------------------------------------------------------------ environment
Chars == {"f", ";"}
Sheets == {<<"f">>}                        \* spreadsheets present on disk
Templates == {<<"t">>}                     \* templates present on disk
TemplInputs == {<<>>, <<"t">>}             \* what the template entry may hold
SheetWidths == 0..MaxCols                  \* len(raw.columns) of a 'Record Sheet'
ExcTypes == {"KeyboardInterrupt", "TclError"}
ExcMessages == {"com_error"}              \* str(e) of what a call may raise

RECURSIVE Strings(_)
Strings(n) ==
    IF n = 0 THEN {<<>>}
    ELSE LET shorter == Strings(n - 1)
         IN  shorter \cup {Append(s, c) : s \in {t \in shorter : Len(t) = n - 1}, c \in Chars}

FileInputs == Strings(MaxLen)              \* what the file entry may hold

VARIABLES
    csvFiles,    \* the *_plotdata.csv files on disk: path -> header row
    projects,    \* the .opju project files on disk
    progress,    \* progress['value']
    dialog,      \* the message box last raised by the interactive thread
    threads,     \* the worker threads ever started, in start order
    proc,        \* "running" | "exited"
    hookLog      \* the calls made by origin_shutdown_exception_hook

vars == <<csvFiles, projects, progress, dialog, threads, proc, hookLog>>

\* ---------------------------------------------------------- pure functions
Min(a, b) == IF a < b THEN a ELSE b

\* str.split(';')
RECURSIVE Split(_)
Split(s) ==
    IF s = <<>> THEN << <<>> >>
    ELSE LET rest == Split(Tail(s))
         IN  IF Head(s) = ";"
             THEN << <<>> >> \o rest
             ELSE << <<Head(s)>> \o Head(rest) >> \o Tail(rest)

\* os.path.splitext(p)[0]: cut at the last dot that follows a non-dot
Splitext0(p) ==
    LET dots == {j \in 2..Len(p) : p[j] = "." /\ \E m \in 1..(j - 1) : p[m] # "."}
    IN  IF dots = {} THEN p
        ELSE SubSeq(p, 1, (CHOOSE j \in dots : \A m \in dots : m <= j) - 1)

CsvPath(xlsx_path) == Splitext0(xlsx_path) \o <<"_plotdata.csv">>
ProjPath(xlsx_path) == Splitext0(xlsx_path) \o <<".opju">>

\* os.path.exists
Exists(p) == p \in Sheets \cup Templates \cup DOMAIN csvFiles \cup projects

\* for i in range(n): is i still inside the range
InRange(i, n) == i < n

\* a // b, which raises on b = 0
FloorDiv(a, b) == IF b = 0 THEN [raised |-> "ZeroDivisionError"] ELSE [value |-> a \div b]

\* len(raw.columns) // 3
CycleCount(ncols) == ncols \div GroupWidth

SpeCapName(i) == "Cycle" \o ToString(i + 1) \o "_SpeCap"
VoltageName(i) == "Cycle" \o ToString(i + 1) \o "_Voltage"
\* variant: the group's first column (Capacity) taken for SpeCap
SpeCapSourceCapacity(i) == i * GroupWidth
SpeCapSource(i) == i * GroupWidth + 1
VoltageSource(i) == i * GroupWidth + 2

\* the dict `out` after the reshape loop, from iteration i on: the columns in
\* insertion order, each with the raw column it was read from
RECURSIVE BuildOut(_, _)
BuildOut(i, cycles) ==
    IF InRange(i, cycles)
    THEN << [name |-> SpeCapName(i), src |-> SpeCapSource(i)],
            [name |-> VoltageName(i), src |-> VoltageSource(i)] >> \o BuildOut(i + 1, cycles)
    ELSE <<>>

ColX(i) == i * PairWidth
ColY(i) == i * PairWidth + 1
\* variant: the trace named like the CSV columns, without the space
PlotNameNoSpace(i) == "Cycle" \o ToString(i + 1)
PlotName(i) == "Cycle " \o ToString(i + 1)

\* variant: the bar set to the increment instead of advanced by it
UpdateProgressSet(value, v) == Min(ProgressMax, v)

\* update_progress(v)
UpdateProgress(value, v) == Min(ProgressMax, value + v)

\* ----------------------------------------------------------------- dialogs
NoDialog == [title |-> "", message |-> <<>>]
ErrorDialog(msg) == [title |-> "Error", message |-> msg]
\* variant: the summary counts from 0
DoneDialogFromZero(total_files) ==
    [title |-> "Done", message |-> <<"Processed ", total_files - 1, " files successfully.">>]
DoneDialog(total_files) ==
    [title |-> "Done", message |-> <<"Processed ", total_files, " files successfully.">>]

\* ------------------------------------------------------------ _start_batch
\* variant: the template is not checked
StartBatchErrorNoTemplate(files_str, templ) ==
    IF files_str = <<>> THEN ErrorDialog(<<"Select at least one Excel file.">>)
    ELSE LET files == Split(files_str)
             missing == {j \in 1..Len(files) : ~Exists(files[j])}
         IN  IF missing # {}
             THEN ErrorDialog(<<"File not found: ",
                                files[CHOOSE j \in missing : \A m \in missing : j <= m]>>)
             ELSE NoDialog

\* the error _start_batch returns with, or NoDialog when it goes on to spawn
StartBatchError(files_str, templ) ==
    IF files_str = <<>> THEN ErrorDialog(<<"Select at least one Excel file.">>)
    ELSE LET files == Split(files_str)
             missing == {j \in 1..Len(files) : ~Exists(files[j])}
         IN  IF missing # {}
             THEN ErrorDialog(<<"File not found: ",
                                files[CHOOSE j \in missing : \A m \in missing : j <= m]>>)
             ELSE IF ~Exists(templ) THEN ErrorDialog(<<"Select a valid template.">>)
             ELSE NoDialog

NewThread(files, templ) ==
    [files |-> files, templ |-> templ, idx |-> 0, pc |-> "loop", i |-> 0,
     ncols |-> 0, cycles |-> 0, out |-> <<>>, calls |-> <<>>,
     begun |-> <<>>, completed |-> <<>>, shown |-> <<>>]

StartBatch(files_str, templ) ==
    /\ proc = "running"
    /\ LET err == StartBatchError(files_str, templ)
       IN  IF err # NoDialog
           THEN /\ dialog' = err
                /\ UNCHANGED <<progress, threads>>
           ELSE /\ Len(threads) < MaxBatches
                /\ progress' = 0
                /\ threads' = Append(threads, NewThread(Split(files_str), templ))
                /\ dialog' = NoDialog
    /\ UNCHANGED <<csvFiles, projects, proc, hookLog>>

\* ----------------------------------------------------------- _worker_batch
Alive(t) == t.pc # "finished"
InProcessFile(t) == t.pc \notin {"loop", "finished"}

\* the thread function has returned: its locals are gone, what it showed stays
Finished(t, dlg) ==
    [t EXCEPT !.pc = "finished", !.i = 0, !.ncols = 0, !.cycles = 0,
              !.out = <<>>, !.calls = <<>>, !.shown = Append(@, dlg)]

\* the for statement: the next file (bar reset, process_file entered), or the
\* Done box once the files are exhausted
WorkerLoop(k) ==
    /\ proc = "running"
    /\ threads[k].pc = "loop"
    /\ LET t == threads[k]
       IN  IF t.idx < Len(t.files)
           THEN /\ progress' = 0
                /\ threads' = [threads EXCEPT ![k] =
                       [t EXCEPT !.idx = @ + 1, !.pc = "reshape", !.i = 0,
                                 !.ncols = 0, !.cycles = 0, !.out = <<>>, !.calls = <<>>,
                                 !.begun = Append(@, t.files[t.idx + 1])]]
           ELSE /\ threads' = [threads EXCEPT ![k] = Finished(t, DoneDialog(Len(t.files)))]
                /\ UNCHANGED progress
    /\ UNCHANGED <<csvFiles, projects, dialog, proc, hookLog>>

\* except Exception as e: messagebox.showerror("Error", str(e))
\* variant: the try statement inside the for loop, the batch going on
OnExceptionContinue(t, e) == [t EXCEPT !.pc = "loop", !.shown = Append(@, ErrorDialog(<<e>>))]

OnException(t, e) == Finished(t, ErrorDialog(<<e>>))

\* the call the thread is about to make raises an exception whose str() is e
Raise(k, e) ==
    /\ proc = "running"
    /\ InProcessFile(threads[k])
    /\ threads' = [threads EXCEPT ![k] = OnException(threads[k], e)]
    /\ UNCHANGED <<csvFiles, projects, progress, dialog, proc, hookLog>>

\* ------------------------------------------------------------ process_file
XlsxPath(t) == t.files[t.idx]

\* variant: the project saved before the notes are written
AfterStepSaveEarly(pc, cycles) ==
    CASE pc = "reshape"  -> "to_csv"
      [] pc = "to_csv"   -> "launch"
      [] pc = "launch"   -> "import"
      [] pc = "import"   -> IF InRange(0, cycles) THEN "axes" ELSE "graph"
      [] pc = "axes"     -> "graph"
      [] pc = "graph"    -> IF InRange(0, cycles) THEN "plot" ELSE "finalize"
      [] pc = "plot"     -> "finalize"
      [] pc = "finalize" -> "save"
      [] pc = "save"     -> "notes"
      [] pc = "notes"    -> "loop"

\* where process_file goes after each of its steps
AfterStep(pc, cycles) ==
    CASE pc = "reshape"  -> "to_csv"
      [] pc = "to_csv"   -> "launch"
      [] pc = "launch"   -> "import"
      [] pc = "import"   -> IF InRange(0, cycles) THEN "axes" ELSE "graph"
      [] pc = "axes"     -> "graph"
      [] pc = "graph"    -> IF InRange(0, cycles) THEN "plot" ELSE "finalize"
      [] pc = "plot"     -> "finalize"
      [] pc = "finalize" -> "notes"
      [] pc = "notes"    -> "save"
      [] pc = "save"     -> "loop"

Step(k, pc) ==
    /\ proc = "running"
    /\ threads[k].pc = pc

\* steps 1-2 on a 'Record Sheet' of ncols columns
Reshape(k, ncols) ==
    /\ Step(k, "reshape")
    /\ LET t == threads[k]
           cycles == CycleCount(ncols)
       IN  threads' = [threads EXCEPT ![k] =
               [t EXCEPT !.ncols = ncols, !.cycles = cycles, !.out = BuildOut(0, cycles),
                         !.pc = AfterStep("reshape", cycles)]]
    /\ UNCHANGED <<csvFiles, projects, progress, dialog, proc, hookLog>>

Header(out) == [j \in 1..Len(out) |-> out[j].name]

ToCsv(k) ==
    /\ Step(k, "to_csv")
    /\ LET t == threads[k]
           csv_path == CsvPath(XlsxPath(t))
       IN  /\ csvFiles' = [p \in DOMAIN csvFiles \cup {csv_path} |->
                              IF p = csv_path THEN Header(t.out) ELSE csvFiles[p]]
           /\ threads' = [threads EXCEPT ![k] =
                  [t EXCEPT !.calls = Append(@, [op |-> "to_csv", path |-> csv_path]),
                            !.pc = AfterStep("to_csv", t.cycles)]]
    /\ UNCHANGED <<projects, progress, dialog, proc, hookLog>>

\* step 3, op.oext being oext: the calls made, and whether the step raises.
\* Execute("win -r") stands in a try statement of its own, so its failure
\* (restoreRaises) is swallowed
LaunchCalls(oext, restoreRaises) ==
    [calls |-> (IF oext THEN <<[op |-> "op.new"], [op |-> "op.set_show"]>> ELSE <<>>)
               \o <<[op |-> "Dispatch"], [op |-> "Visible"],
                     [op |-> "Execute", cmd |-> "win -r", raised |-> restoreRaises]>>,
     raises |-> FALSE]

Launch(k, oext, restoreRaises) ==
    /\ Step(k, "launch")
    /\ LET t == threads[k]
           did == LaunchCalls(oext, restoreRaises)
       IN  threads' = [threads EXCEPT ![k] =
               IF did.raises
               THEN OnException(t, "win -r")
               ELSE [t EXCEPT !.calls = @ \o did.calls, !.pc = AfterStep("launch", t.cycles)]]
    /\ UNCHANGED <<csvFiles, projects, progress, dialog, proc, hookLog>>

Import(k) ==
    /\ Step(k, "import")
    /\ LET t == threads[k]
       IN  threads' = [threads EXCEPT ![k] =
               [t EXCEPT !.calls = @ \o <<[op |-> "new_sheet"],
                                          [op |-> "from_file", path |-> CsvPath(XlsxPath(t))]>>,
                         !.i = 0, !.pc = AfterStep("import", t.cycles)]]
    /\ UNCHANGED <<csvFiles, projects, progress, dialog, proc, hookLog>>

Axes(k) ==
    /\ Step(k, "axes")
    /\ LET t == threads[k]
           more == InRange(t.i + 1, t.cycles)
       IN  threads' = [threads EXCEPT ![k] =
               [t EXCEPT !.calls = @ \o <<[op |-> "cols_axis", role |-> "X", col |-> ColX(t.i)],
                                          [op |-> "cols_axis", role |-> "Y", col |-> ColY(t.i)]>>,
                         !.i = IF more THEN @ + 1 ELSE 0,
                         !.pc = IF more THEN "axes" ELSE AfterStep("axes", t.cycles)]]
    /\ UNCHANGED <<csvFiles, projects, progress, dialog, proc, hookLog>>

Graph(k) ==
    /\ Step(k, "graph")
    /\ LET t == threads[k]
       IN  threads' = [threads EXCEPT ![k] =
               [t EXCEPT !.calls = @ \o <<[op |-> "new_graph", template |-> t.templ],
                                          [op |-> "layer", index |-> 0]>>,
                         !.i = 0, !.pc = AfterStep("graph", t.cycles)]]
    /\ UNCHANGED <<csvFiles, projects, progress, dialog, proc, hookLog>>

\* one iteration of loop 7: add_plot, plot.name, progress_callback(100 // cycles)
Plot(k) ==
    /\ Step(k, "plot")
    /\ LET t == threads[k]
           more == InRange(t.i + 1, t.cycles)
           added == [op |-> "add_plot", layer |-> 0, colx |-> ColX(t.i), coly |-> ColY(t.i),
                     name |-> PlotName(t.i)]
           step == FloorDiv(ProgressFull, t.cycles)
       IN  IF "raised" \in DOMAIN step
           THEN /\ threads' = [threads EXCEPT ![k] =
                       Finished([t EXCEPT !.calls = Append(@, added)],
                                ErrorDialog(<<step.raised>>))]
                /\ UNCHANGED progress
           ELSE /\ progress' = UpdateProgress(progress, step.value)
                /\ threads' = [threads EXCEPT ![k] =
                       [t EXCEPT !.calls = @ \o <<added, [op |-> "progress_callback",
                                                         v |-> step.value]>>,
                                 !.i = IF more THEN @ + 1 ELSE 0,
                                 !.pc = IF more THEN "plot" ELSE AfterStep("plot", t.cycles)]]
    /\ UNCHANGED <<csvFiles, projects, dialog, proc, hookLog>>

Finalize(k) ==
    /\ Step(k, "finalize")
    /\ LET t == threads[k]
       IN  threads' = [threads EXCEPT ![k] =
               [t EXCEPT !.calls = @ \o <<[op |-> "rescale", layer |-> 0],
                                          [op |-> "lt_exec", cmd |-> "win -s T"]>>,
                         !.pc = AfterStep("finalize", t.cycles)]]
    /\ UNCHANGED <<csvFiles, projects, progress, dialog, proc, hookLog>>

Notes(k) ==
    /\ Step(k, "notes")
    /\ LET t == threads[k]
       IN  threads' = [threads EXCEPT ![k] =
               [t EXCEPT !.calls = Append(@, [op |-> "new_notes",
                                              lines |-> <<XlsxPath(t), t.templ,
                                                          CsvPath(XlsxPath(t))>>]),
                         !.pc = AfterStep("notes", t.cycles)]]
    /\ UNCHANGED <<csvFiles, projects, progress, dialog, proc, hookLog>>

Save(k) ==
    /\ Step(k, "save")
    /\ LET t == threads[k]
           proj_path == ProjPath(XlsxPath(t))
       IN  /\ projects' = projects \cup {proj_path}
           /\ threads' = [threads EXCEPT ![k] =
                  [t EXCEPT !.calls = Append(@, [op |-> "save", path |-> proj_path]),
                            !.completed = Append(@, XlsxPath(t)),
                            !.pc = AfterStep("save", t.cycles)]]
    /\ UNCHANGED <<csvFiles, progress, dialog, proc, hookLog>>

\* ------------------------------------------ origin_shutdown_exception_hook
\* variant: op.exit() called outside any try statement
HookCallsNoTry(exctype, exitRaises) ==
    IF exitRaises
    THEN <<[op |-> "op.exit", raised |-> TRUE]>>
    ELSE <<[op |-> "op.exit", raised |-> FALSE],
           [op |-> "sys.__excepthook__", exctype |-> exctype]>>

\* the calls the hook makes for an exception of type exctype, when op.exit()
\* raises (exitRaises) and when it does not
HookCalls(exctype, exitRaises) ==
    <<[op |-> "op.exit", raised |-> exitRaises],
      [op |-> "sys.__excepthook__", exctype |-> exctype]>>

\* an exception leaves the main thread: the hook runs and the interpreter
\* exits, taking the daemon threads and the widgets with it
ExceptHook(exctype, exitRaises) ==
    /\ proc = "running"
    /\ hookLog' = HookCalls(exctype, exitRaises)
    /\ proc' = "exited"
    /\ threads' = <<>>
    /\ progress' = 0
    /\ dialog' = NoDialog
    /\ UNCHANGED <<csvFiles, projects>>

\* ------------------------------------------------------------------- specs
Init ==
    /\ csvFiles = <<>>
    /\ projects = {}
    /\ progress = 0
    /\ dialog = NoDialog
    /\ threads = <<>>
    /\ proc = "running"
    /\ hookLog = <<>>

OverlapWidths == {0, MaxCols}
OverlapOext == {TRUE}
OverlapRestore == {FALSE}

Next ==
    \/ \E files_str \in FileInputs, templ \in TemplInputs : StartBatch(files_str, templ)
    \/ \E k \in DOMAIN threads : WorkerLoop(k)
    \/ \E k \in DOMAIN threads, ncols \in OverlapWidths : Reshape(k, ncols)
    \/ \E k \in DOMAIN threads : ToCsv(k)
    \/ \E k \in DOMAIN threads, oext \in OverlapOext, restoreRaises \in OverlapRestore :
          Launch(k, oext, restoreRaises)
    \/ \E k \in DOMAIN threads : Import(k)
    \/ \E k \in DOMAIN threads : Axes(k)
    \/ \E k \in DOMAIN threads : Graph(k)
    \/ \E k \in DOMAIN threads : Plot(k)
    \/ \E k \in DOMAIN threads : Finalize(k)
    \/ \E k \in DOMAIN threads : Notes(k)
    \/ \E k \in DOMAIN threads : Save(k)
    \/ \E k \in DOMAIN threads, e \in ExcMessages : Raise(k, e)
    \/ \E exctype \in ExcTypes, exitRaises \in BOOLEAN : ExceptHook(exctype, exitRaises)

\* the program: the button may be pressed at any time; the script runs as
\* an external program, on empty and on full-width sheets, and the main
\* window is restored without error
Spec == Init /\ [][Next]_vars

\* the button is pressed only while no batch is running; sheets of any width
Idle == \A k \in DOMAIN threads : ~Alive(threads[k])

IdleStartBatch(files_str, templ) ==
    /\ Idle
    /\ StartBatch(files_str, templ)

SeqNext ==
    \/ \E files_str \in FileInputs, templ \in TemplInputs : IdleStartBatch(files_str, templ)
    \/ \E k \in DOMAIN threads : WorkerLoop(k)
    \/ \E k \in DOMAIN threads, ncols \in SheetWidths : Reshape(k, ncols)
    \/ \E k \in DOMAIN threads : ToCsv(k)
    \/ \E k \in DOMAIN threads, oext \in BOOLEAN, restoreRaises \in BOOLEAN :
          Launch(k, oext, restoreRaises)
    \/ \E k \in DOMAIN threads : Import(k)
    \/ \E k \in DOMAIN threads : Axes(k)
    \/ \E k \in DOMAIN threads : Graph(k)
    \/ \E k \in DOMAIN threads : Plot(k)
    \/ \E k \in DOMAIN threads : Finalize(k)
    \/ \E k \in DOMAIN threads : Notes(k)
    \/ \E k \in DOMAIN threads : Save(k)
    \/ \E k \in DOMAIN threads, e \in ExcMessages : Raise(k, e)
    \/ \E exctype \in ExcTypes, exitRaises \in BOOLEAN : ExceptHook(exctype, exitRaises)

SeqSpec == Init /\ [][SeqNext]_vars

\* ==================================================================
\* Properties
\* ==================================================================
Threads == DOMAIN threads
Has(calls, op) == \E j \in 1..Len(calls) : calls[j].op = op
IsPlotAdd(c) == c.op = "add_plot"
PlotAdds(t) == SelectSeq(t.calls, IsPlotAdd)
IsPrefix(s, t) == Len(s) <= Len(t) /\ s = SubSeq(t, 1, Len(s))
\* the thread is in a process_file call, or back from one and not yet in the next
HasCall(t) == InProcessFile(t) \/ (t.pc = "loop" /\ t.idx > 0)
Returned(t) == t.pc = "loop" /\ t.idx > 0
Failed(t) == t.pc = "finished" /\ t.shown # <<>> /\ t.shown[1].title = "Error"
\* the largest k with 3k <= n
Thirds(n) == CHOOSE k \in 0..n : 3 * k <= n /\ n < 3 * k + 3

\* C1: at every moment at most one worker thread is alive, and at most one
\* process_file call is under way.
C1_SingleWorker ==
    /\ Cardinality({k \in Threads : Alive(threads[k])}) <= 1
    /\ Cardinality({k \in Threads : InProcessFile(threads[k])}) <= 1

\* C2: a press of the button spawns a worker only when the selection is
\* non-empty and every selected path and the template exist; a press that
\* spawns none shows an error dialog and leaves the threads, the progress bar
\* and the rest of the state as they were.
C2_StartRefused ==
    [][/\ Len(threads') > Len(threads) =>
             LET t == threads'[Len(threads')]
             IN  /\ threads' = Append(threads, t)
                 /\ t.files # << <<>> >>
                 /\ \A j \in 1..Len(t.files) : Exists(t.files[j])
                 /\ Exists(t.templ)
                 /\ t.idx = 0 /\ t.pc = "loop"
       /\ (threads' = threads /\ proc' = proc) =>
             /\ dialog'.title = "Error"
             /\ UNCHANGED <<progress, csvFiles, projects, hookLog>>]_vars

\* a press was refused after a batch had left the bar above 0
C2_Witness ==
    /\ dialog.title = "Error"
    /\ progress > 0
    /\ threads # <<>>

\* C3: a worker whose process_file call raised on its i-th file has shown the
\* exception's message in one error dialog and nothing else, has entered
\* process_file for the files 1..i only, and the projects of the files 1..i-1
\* are on disk.
C3_AbortOnException ==
    \A k \in Threads :
        LET t == threads[k]
        IN  (\E j \in 1..Len(t.shown) : t.shown[j].title = "Error") =>
                /\ t.pc = "finished"
                /\ Len(t.shown) = 1
                /\ \E e \in ExcMessages : t.shown[1] = [title |-> "Error", message |-> <<e>>]
                /\ t.idx >= 1
                /\ t.begun = SubSeq(t.files, 1, t.idx)
                /\ t.completed = SubSeq(t.files, 1, t.idx - 1)
                /\ \A j \in 1..(t.idx - 1) : ProjPath(t.files[j]) \in projects

\* the second file of a batch failed; the first file's project is on disk
C3_Witness ==
    \E k \in Threads :
        /\ Failed(threads[k])
        /\ threads[k].idx = 2
        /\ Len(threads[k].files) = 2
        /\ ProjPath(threads[k].files[1]) \in projects

PlotNames == <<"Cycle 1", "Cycle 2", "Cycle 3", "Cycle 4", "Cycle 5">>
ExpectedPlot(n) ==
    [op |-> "add_plot", layer |-> 0, colx |-> 2 * (n - 1), coly |-> 2 * (n - 1) + 1,
     name |-> PlotNames[n]]
PastPlots(t) == t.pc \in {"finalize", "notes", "save"} \/ Returned(t)

\* C5: the n-th plot-add of a process_file call is on the first layer of the
\* template's graph, takes X from column 2(n-1) and Y from column 2(n-1)+1 and
\* is named 'Cycle n'; once the plot loop is over there are as many plot-adds
\* as cycles, and that is the sheet's column count divided by 3.
C5_OnePlotPerCycle ==
    \A k \in Threads :
        LET t == threads[k]
            adds == PlotAdds(t)
        IN  /\ \A n \in 1..Len(adds) : adds[n] = ExpectedPlot(n)
            /\ adds # <<>> =>
                  \E j \in 1..Len(t.calls) :
                      /\ t.calls[j] = [op |-> "new_graph", template |-> t.templ]
                      /\ t.calls[j + 1] = [op |-> "layer", index |-> 0]
                      /\ \A m \in 1..j : t.calls[m].op # "add_plot"
            /\ PastPlots(t) =>
                  /\ Len(adds) = t.cycles
                  /\ t.cycles = Thirds(t.ncols)

\* three traces were added for a sheet whose width is not a multiple of 3
C5_Witness ==
    \E k \in Threads :
        /\ PastPlots(threads[k])
        /\ Len(PlotAdds(threads[k])) = 3
        /\ threads[k].ncols > 9

SpeCapNames == <<"Cycle1_SpeCap", "Cycle2_SpeCap", "Cycle3_SpeCap", "Cycle4_SpeCap",
                 "Cycle5_SpeCap">>
VoltageNames == <<"Cycle1_Voltage", "Cycle2_Voltage", "Cycle3_Voltage", "Cycle4_Voltage",
                  "Cycle5_Voltage">>
Reshaped(t) == HasCall(t) /\ t.pc # "reshape"

\* C6: from a sheet of 3k+r columns the reshaper keeps 2k columns, in the
\* order Cycle1_SpeCap, Cycle1_Voltage, ..., the n-th pair read from the source
\* columns 3(n-1)+1 and 3(n-1)+2; the remaining columns are dropped, the step
\* that writes the CSV writes those 2k names as its header, and the call goes
\* on.
C6_Reshape ==
    [][\A k \in DOMAIN threads' :
          LET t == threads'[k]
              kk == Thirds(t.ncols)
              csv_path == CsvPath(XlsxPath(t))
          IN  /\ Reshaped(t) =>
                    /\ t.ncols \in SheetWidths
                    /\ Len(t.out) = 2 * kk
                    /\ \A n \in 1..kk :
                          /\ t.out[2 * n - 1]
                                = [name |-> SpeCapNames[n], src |-> 3 * (n - 1) + 1]
                          /\ t.out[2 * n]
                                = [name |-> VoltageNames[n], src |-> 3 * (n - 1) + 2]
              /\ (k \in DOMAIN threads /\ threads[k].pc = "to_csv" /\ t.pc = "launch") =>
                    /\ csv_path \in DOMAIN csvFiles'
                    /\ Len(csvFiles'[csv_path]) = 2 * kk
                    /\ \A n \in 1..kk :
                          /\ csvFiles'[csv_path][2 * n - 1] = SpeCapNames[n]
                          /\ csvFiles'[csv_path][2 * n] = VoltageNames[n]]_vars

\* a sheet of 8 columns gave a CSV of 4 columns and the call went on
C6_Witness ==
    \E k \in Threads :
        /\ threads[k].pc = "launch"
        /\ threads[k].ncols = 8
        /\ csvFiles[CsvPath(XlsxPath(threads[k]))]
              = <<"Cycle1_SpeCap", "Cycle1_Voltage", "Cycle2_SpeCap", "Cycle2_Voltage">>

\* C7: with one worker at a time, the bar is 0 when a file's processing starts
\* and j * (100 div c) after the file's j-th plot-add; after the last one it is
\* c * (100 div c), at most 100 and below 100 exactly when c does not divide 100.
C7_ProgressPerFile ==
    \A k \in Threads :
        LET t == threads[k]
            j == Len(PlotAdds(t))
        IN  Alive(t) =>
                /\ progress = IF j = 0 THEN 0 ELSE j * (100 \div t.cycles)
                /\ progress <= 100
                /\ (PastPlots(t) /\ t.cycles >= 1) =>
                      /\ progress = t.cycles * (100 \div t.cycles)
                      /\ progress < 100 <=> 100 % t.cycles # 0

\* a file of 3 cycles left the bar at 99
C7_Witness ==
    \E k \in Threads :
        /\ PastPlots(threads[k])
        /\ threads[k].cycles = 3
        /\ progress = 99

Rank(op) ==
    CASE op = "to_csv" -> 1
      [] op \in {"op.new", "op.set_show", "Dispatch", "Visible", "Execute"} -> 2
      [] op \in {"new_sheet", "from_file"} -> 3
      [] op = "cols_axis" -> 4
      [] op \in {"new_graph", "layer"} -> 5
      [] op \in {"add_plot", "progress_callback"} -> 6
      [] op \in {"rescale", "lt_exec"} -> 7
      [] op = "new_notes" -> 8
      [] op = "save" -> 9

\* C9: in a process_file call the CSV is written before any call to the
\* application, the import comes before every plot-add, and the save is the
\* last call, made after c plot-adds, the rescale and the notes; while the
\* program runs a project is on disk only for a file whose call got that far,
\* and a call that has not got that far has written at most its CSV.
C9_StepOrder ==
    /\ \A k \in Threads :
          LET t == threads[k]
              n == Len(t.calls)
          IN  /\ \A a, b \in 1..n : a < b => Rank(t.calls[a].op) <= Rank(t.calls[b].op)
              /\ n > 0 => t.calls[1].op = "to_csv"
              /\ n > 0 => CsvPath(XlsxPath(t)) \in DOMAIN csvFiles
              /\ \A a \in 1..n : t.calls[a].op = "add_plot" =>
                    \E b \in 1..(a - 1) : t.calls[b].op = "from_file"
              /\ \A a \in 1..n : t.calls[a].op = "save" =>
                    /\ a = n
                    /\ t.calls[a].path = ProjPath(XlsxPath(t))
                    /\ Len(PlotAdds(t)) = t.cycles
                    /\ Has(t.calls, "rescale")
                    /\ Has(t.calls, "new_notes")
                    /\ Returned(t)
              /\ Returned(t) => t.calls[n].op = "save"
    /\ proc = "running" =>
       \A p \in projects :
          \E k \in Threads : \E j \in 1..Len(threads[k].completed) :
              ProjPath(threads[k].completed[j]) = p

\* a call failed after its CSV was written: the CSV is on disk, no project is
C9_Witness ==
    \E k \in Threads :
        /\ Failed(threads[k])
        /\ CsvPath(threads[k].files[1]) \in DOMAIN csvFiles
        /\ projects = {}

ShowsZeroDivision(t) ==
    \E j \in 1..Len(t.shown) : t.shown[j].message = <<"ZeroDivisionError">>

\* C10: for a sheet of fewer than 3 columns process_file assigns no axis, adds
\* no plot, calls back no progress and divides by nothing; it rescales, writes
\* the notes and saves, and the bar stays at 0.  The bar is the one widget all
\* workers call back to, so the last part depends on C1.
C10_NoCycles ==
    \A k \in Threads :
        LET t == threads[k]
        IN  /\ ~ShowsZeroDivision(t)
            /\ (Reshaped(t) /\ t.ncols < 3) =>
                  /\ t.cycles = 0
                  /\ t.pc \notin {"axes", "plot"}
                  /\ ~Has(t.calls, "cols_axis")
                  /\ ~Has(t.calls, "add_plot")
                  /\ ~Has(t.calls, "progress_callback")
                  /\ progress = 0
                  /\ Returned(t) =>
                        /\ Has(t.calls, "rescale")
                        /\ Has(t.calls, "new_notes")
                        /\ t.calls[Len(t.calls)].op = "save"
                        /\ ProjPath(XlsxPath(t)) \in projects

\* a sheet of no cycles is being processed while the bar stands above 0
C10_Witness ==
    \E k \in Threads :
        /\ Reshaped(threads[k])
        /\ threads[k].ncols < 3
        /\ progress > 0

====
